---- MODULE Spec2Model ----
(***************************************************************************)
(* Model of PatchLogic (src/main.py): create_patch builds a patch package  *)
(* from an old and a new directory tree, apply_patch applies a package to  *)
(* a target tree with a rollback area and a post-apply validation.         *)
(*                                                                         *)
(* A path, a file name and a location are sequences of one-character       *)
(* strings, so that str.replace, os.path.splitext and the pathlib join are *)
(* computed as the code computes them.  A file's bytes are a sequence of   *)
(* small numbers.                                                          *)
(***************************************************************************)
EXTENDS Integers, Sequences, FiniteSets, TLC

(***************************************************************************)
(* Bounds of the model.                                                    *)
(***************************************************************************)
\* most files in one tree
MaxFiles == 2
\* number of distinct file contents; content n is n bytes long
MaxContent == 2

(***************************************************************************)
(* Strings.                                                                *)
(***************************************************************************)
SEP == <<"/">>
MARK == <<"_", "_">>
EXT_PATCH == <<".", "p", "a", "t", "c", "h">>
EXT_FULL == <<".", "f", "u", "l", "l">>
EXT_DELETE == <<".", "d", "e", "l", "e", "t", "e">>
EXT_TMP == <<".", "t", "m", "p">>
DELETE_TOKEN == <<"D", "E", "L", "E", "T", "E">>

StartsWith(s, pre) ==
    /\ Len(pre) <= Len(s)
    /\ SubSeq(s, 1, Len(pre)) = pre

\* str.replace(from, to): leftmost, non-overlapping occurrences
RECURSIVE Replace(_, _, _)
Replace(s, from, to) ==
    IF s = <<>> THEN <<>>
    ELSE IF StartsWith(s, from)
         THEN to \o Replace(SubSeq(s, Len(from) + 1, Len(s)), from, to)
         ELSE <<Head(s)>> \o Replace(Tail(s), from, to)

\* index of the last ".", 0 when there is none (str.rfind + 1)
LastDot(s) ==
    LET D == {i \in 1..Len(s) : s[i] = "."}
    IN  IF D = {} THEN 0 ELSE CHOOSE i \in D : \A j \in D : j <= i

\* os.path.splitext of a name without separator: the extension starts at the
\* last dot, unless only dots come before it
splitext(name) ==
    LET dot == LastDot(name)
    IN  IF dot = 0 \/ (\A i \in 1..(dot - 1) : name[i] = ".")
        THEN <<name, <<>>>>
        ELSE <<SubSeq(name, 1, dot - 1), SubSeq(name, dot, Len(name))>>

\* the components of a path string, str.split("/")
RECURSIVE Split(_)
Split(s) ==
    LET C == {i \in 1..Len(s) : s[i] = "/"}
    IN  IF C = {} THEN <<s>>
        ELSE LET i == CHOOSE k \in C : \A j \in C : k <= j
             IN  <<SubSeq(s, 1, i - 1)>> \o Split(SubSeq(s, i + 1, Len(s)))

RECURSIVE Join(_)
Join(cs) ==
    IF cs = <<>> THEN <<>>
    ELSE IF Len(cs) = 1 THEN cs[1]
         ELSE cs[1] \o SEP \o Join(Tail(cs))

\* Path(root) / rel, relative to root: pathlib drops empty and "." components
\* and keeps "..".  (An absolute rel would replace the root; no name of the
\* model decodes to one.)
Normalize(rel) ==
    Join(SelectSeq(Split(rel), LAMBDA c : c # <<>> /\ c # <<".">>))

\* the location is not below the root: its first component is ".."
Escapes(loc) == Split(loc)[1] = <<".", ".">>

\* Path.parent of a location below the root; <<>> is the root itself
Parent(loc) ==
    LET cs == Split(loc)
    IN  Join(SubSeq(cs, 1, Len(cs) - 1))

Basename(loc) ==
    LET cs == Split(loc)
    IN  cs[Len(cs)]

\* the directories above a location, the root excluded
RECURSIVE Ancestors(_)
Ancestors(loc) ==
    LET p == Parent(loc)
    IN  IF p = <<>> THEN {} ELSE {p} \cup Ancestors(p)

(***************************************************************************)
(* Files and trees.                                                        *)
(***************************************************************************)
\* the bytes of content n
Bytes(n) == [i \in 1..n |-> i]
Contents == {Bytes(n) : n \in 1..MaxContent}
\* what a write cut short leaves, and what a delta on the wrong base yields
TRUNCATED == <<>>
GARBAGE == <<0>>

P_D == <<"d">>
P_DA == <<"d", "/", "a">>
P_D_A == <<"d", "_", "_", "a">>
P_UP == <<".", ".", "_", "_", "a">>
\* the relative paths (as_posix) a tree of the model may hold
Paths == {P_D, P_DA, P_D_A, P_UP}

\* no file of the set is a directory of another
PrefixFree(S) == \A p \in S : \A q \in S : p \notin Ancestors(q)

Trees ==
    UNION {[S -> Contents] : S \in {T \in SUBSET Paths :
                                     Cardinality(T) <= MaxFiles /\ PrefixFree(T)}}

\* the directories a set of files implies
DirsOf(S) == UNION {Ancestors(p) : p \in S}

\* hashlib.sha256 of a file's bytes: a tag on the bytes (no collisions)
sha256sum(bytes) == <<"sha256", bytes>>

\* a function with one more (or one replaced) pair
Put(f, k, v) == [x \in DOMAIN f \cup {k} |-> IF x = k THEN v ELSE f[x]]
Drop(f, k) == [x \in DOMAIN f \ {k} |-> f[x]]
Empty == [x \in {} |-> <<>>]

\* a package file: absent, partial (a write cut short), garbage (no zstd
\* stream) or an archive of members, with its manifest.json ok, absent or
\* unparsable
File(state, mstate, mf, members) ==
    [state |-> state, mstate |-> mstate, manifest |-> mf, members |-> members]
NoFile == File("absent", "absent", Empty, Empty)

VARIABLES
    old,        \* the old tree: relative path -> bytes
    new,        \* the new tree
    cancel,     \* cancel_event
    cstate,     \* create_patch: Idle, Scanning, Done, Failed, Cancelled
    todoNew,    \* files of all_new_files not yet visited
    todoOld,    \* files of all_old_files not yet visited
    manifest,   \* the manifest dict of create_patch
    ctmp,       \* patch_tmp_creator: file name -> blob
    pkg,        \* the file at patch_package, see File
    astate,     \* apply_patch: Idle, Extracting, Applying, Validating,
                \* Committed, RolledBack
    aerr,       \* the exception apply_patch ended with: none, extract, io,
                \* cancelled, hash_io, validation
    input,      \* the package file apply_patch is given
    work,       \* patch_tmp_applier: extracted member -> blob
    amanifest,  \* the manifest apply_patch loaded
    todo,       \* members of patch_files not yet visited
    rollback,   \* rollback_dir: location -> bytes
    game,       \* the files at and around game_dir: location -> bytes
    gdirs,      \* the directories below game_dir
    touched,    \* history: the locations the entries of the run wrote or removed
    atApplied,  \* history: the files when the apply loop ended
    restored,   \* history: rollback_dir as the except clause found it
    disturbed,  \* history: a fault was injected, the input tampered or the
                \* run cancelled
    processed_files,    \* create_patch's counter of the files it has visited
    progress,   \* the <<value, total>> pairs the current run has handed to
                \* self.progress, in order
    is_running_task,    \* MainApplication.is_running_task
    log_queue,  \* MainApplication.log_queue: the messages not yet polled
    progress_value,     \* the value of the progress bar
    asking,     \* cancel_task is waiting in its askyesno dialog
    asked_in,   \* history: the run during which that dialog was opened
    cancel_of,  \* history: the run whose cancel_task last set the flag
    runs,       \* history: the number of workers start_task has started
    workers,    \* history: the worker threads that have not reached their end
    wpc,        \* where the worker is: none, running, returned, finally
    outcome,    \* how target_func ended in the last run: none, success,
                \* cancelled, error
    wtotal,     \* the iterations target_func has to make in this run
    wdone       \* the iterations it has made

cvars == <<cstate, todoNew, todoOld, manifest, ctmp, pkg>>
avars == <<astate, aerr, input, work, amanifest, todo, rollback, game, gdirs,
           touched, atApplied, restored>>
pvars == <<processed_files, progress>>
uvars == <<is_running_task, log_queue, progress_value, asking, asked_in,
           cancel_of, runs, workers, wpc, outcome, wtotal, wdone>>
lvars == <<old, new, cvars, avars, disturbed, pvars>>
vars == <<old, new, cancel, cvars, avars, disturbed, pvars, uvars>>

(***************************************************************************)
(* create_patch                                                            *)
(***************************************************************************)
\* Path.exists() in a source tree: a file, or a directory holding one
ExistsIn(tree, p) == p \in DOMAIN tree \/ p \in DirsOf(DOMAIN tree)

\* the writer's name for a path
patch_name(rel_path) == Replace(rel_path, SEP, MARK)

\* detools.create_patch(old, new): a delta knows its base and its result
Delta(from, to) == [kind |-> "delta", base |-> from, to |-> to]
Full(bytes) == [kind |-> "bytes", bytes |-> bytes]

\* the entry lines 111-124 write for one file of the new tree
NewFileEntry(p) ==
    IF p \in DOMAIN old /\ old[p] = new[p] THEN "none"
    ELSE IF ExistsIn(old, p)
         THEN IF p \in DOMAIN old THEN "patch" ELSE "unreadable"
         ELSE "full"

\* the slip of recording only the files that get an entry
ManifestedChangedOnly(m, p) ==
    IF NewFileEntry(p) = "none" THEN m
    ELSE Put(m, p, [sha256 |-> sha256sum(new[p]), size |-> Len(new[p])])

\* lines 104-107: the manifest gets the digest and size of every new file
Manifested(m, p) ==
    Put(m, p, [sha256 |-> sha256sum(new[p]), size |-> Len(new[p])])

\* the tree apply_patch works on is a copy of the old tree
\* PatchLogic and the two trees before any run
LogicInit ==
    /\ old \in Trees
    /\ new \in Trees
    /\ cancel = FALSE
    /\ cstate = "Idle"
    /\ todoNew = {}
    /\ todoOld = {}
    /\ manifest = Empty
    /\ ctmp = Empty
    /\ pkg = NoFile
    /\ astate = "Idle"
    /\ aerr = "none"
    /\ input = NoFile
    /\ work = Empty
    /\ amanifest = Empty
    /\ todo = {}
    /\ rollback = Empty
    /\ game = old
    /\ gdirs = DirsOf(DOMAIN old)
    /\ touched = {}
    /\ atApplied = Empty
    /\ restored = Empty
    /\ disturbed = FALSE
    /\ processed_files = 0
    /\ progress = <<>>

\* MainApplication.__init__, lines 310-337: no task, an empty queue, the
\* progress bar at 0
UiInit ==
    /\ is_running_task = FALSE
    /\ log_queue = <<>>
    /\ progress_value = 0
    /\ asking = FALSE
    /\ asked_in = 0
    /\ cancel_of = 0
    /\ runs = 0
    /\ workers = 0
    /\ wpc = "none"
    /\ outcome = "none"
    /\ wtotal = 0
    /\ wdone = 0

Init == LogicInit /\ UiInit

\* a total that counts the files of the new tree only
total_files_new_only == Cardinality(DOMAIN new)

\* line 96: total_files of create_patch
total_files_create == Cardinality(DOMAIN new) + Cardinality(DOMAIN old)

\* lines 112-113, 126-127 and 138-139: the counter goes up by one and is
\* reported with the total
CountAndReport ==
    /\ processed_files' = processed_files + 1
    /\ progress' = Append(progress, <<processed_files + 1, total_files_create>>)

\* lines 81-96: a fresh working area, the two file lists
CreateStart ==
    /\ cstate = "Idle"
    /\ cstate' = "Scanning"
    /\ todoNew' = DOMAIN new
    /\ todoOld' = DOMAIN old
    /\ manifest' = Empty
    /\ ctmp' = Empty
    /\ processed_files' = 0
    /\ progress' = <<>>
    /\ UNCHANGED <<old, new, cancel, pkg, avars, disturbed, uvars>>

\* the finally clause (line 154) removes the working area on every exit
CreateExit(state) ==
    /\ cstate' = state
    /\ ctmp' = Empty
    /\ todoNew' = {}
    /\ todoOld' = {}

\* lines 98-127: one iteration of the loop over all_new_files
CreateNewFile(p) ==
    /\ cstate = "Scanning"
    /\ p \in todoNew
    /\ IF cancel
       THEN CreateExit("Cancelled") /\ UNCHANGED <<manifest, pvars>>
       ELSE LET e == NewFileEntry(p)
            IN  /\ manifest' = Manifested(manifest, p)
                /\ CASE e = "none" ->
                          /\ todoNew' = todoNew \ {p}
                          /\ CountAndReport
                          /\ UNCHANGED <<cstate, ctmp, todoOld>>
                     [] e = "patch" ->
                          /\ todoNew' = todoNew \ {p}
                          /\ ctmp' = Put(ctmp, patch_name(p) \o EXT_PATCH,
                                         Delta(old[p], new[p]))
                          /\ CountAndReport
                          /\ UNCHANGED <<cstate, todoOld>>
                     [] e = "full" ->
                          /\ todoNew' = todoNew \ {p}
                          /\ ctmp' = Put(ctmp, patch_name(p) \o EXT_FULL,
                                         Full(new[p]))
                          /\ CountAndReport
                          /\ UNCHANGED <<cstate, todoOld>>
                     [] OTHER ->
                          \* open() of a directory of the old tree raises
                          CreateExit("Failed") /\ UNCHANGED pvars
    /\ UNCHANGED <<old, new, cancel, pkg, avars, disturbed, uvars>>

\* lines 129-139: one iteration of the loop over all_old_files
CreateOldFile(p) ==
    /\ cstate = "Scanning"
    /\ todoNew = {}
    /\ p \in todoOld
    /\ IF cancel
       THEN CreateExit("Cancelled") /\ UNCHANGED pvars
       ELSE /\ todoOld' = todoOld \ {p}
            /\ CountAndReport
            /\ ctmp' = IF ExistsIn(new, p) THEN ctmp
                       ELSE Put(ctmp, patch_name(p) \o EXT_DELETE,
                                Full(DELETE_TOKEN))
            /\ UNCHANGED <<cstate, todoNew>>
    /\ UNCHANGED <<old, new, cancel, manifest, pkg, avars, disturbed, uvars>>

\* lines 141-152: manifest.json, then the archive is compressed into the file
\* opened at patch_package; a failure while writing leaves what was written
CreateWrite(ok) ==
    /\ cstate = "Scanning"
    /\ todoNew = {}
    /\ todoOld = {}
    /\ pkg' = IF ok THEN File("archive", "ok", manifest, ctmp)
               ELSE File("partial", "absent", Empty, Empty)
    /\ CreateExit(IF ok THEN "Done" ELSE "Failed")
    /\ disturbed' = (disturbed \/ ~ok)
    /\ UNCHANGED <<old, new, cancel, manifest, avars, pvars, uvars>>

(***************************************************************************)
(* apply_patch                                                             *)
(***************************************************************************)
\* a member of the archive below rollback/
PLANTED == <<"r", "o", "l", "l", "b", "a", "c", "k", "/", "d">>
ROLLBACK_PREFIX == <<"r", "o", "l", "l", "b", "a", "c", "k", "/">>

\* the files apply_patch may be handed for a package file: the file as
\* create_patch left it, a file that is no zstd stream, an archive without
\* manifest.json, one whose manifest.json is no JSON, and an archive without
\* manifest.json that has a member below rollback/
PackageInputs(file) ==
    IF file.state # "archive" THEN {file}
    ELSE {file,
          File("garbage", "absent", Empty, Empty),
          File("archive", "absent", Empty, file.members),
          File("archive", "unparsable", Empty, file.members),
          File("archive", "absent", Empty,
               Put(file.members, PLANTED, Full(Bytes(1))))}

\* lines 157-166, after start_task (lines 515-516) cleared the cancel flag:
\* the working area is removed and made anew
ApplyStart(file) ==
    /\ cstate \in {"Done", "Failed", "Cancelled"}
    /\ astate = "Idle"
    /\ file \in PackageInputs(pkg)
    /\ astate' = "Extracting"
    /\ input' = file
    /\ cancel' = FALSE
    /\ work' = Empty
    /\ rollback' = Empty
    /\ disturbed' = (disturbed \/ file # pkg)
    /\ progress' = <<>>
    /\ UNCHANGED <<old, new, cvars, aerr, amanifest, todo, game, gdirs,
                   touched, atApplied, restored, processed_files, uvars>>

\* where the except clause copies the backup of a location: onto the
\* location, or into the directory that has taken its place (shutil.copy2)
RestoreDest(k) ==
    IF k \in gdirs THEN k \o SEP \o Basename(k) ELSE k

\* an except clause that reports and restores nothing
RestoreNothing(files, store) == files

\* lines 244-250: every file of rollback_dir is copied back
RestoreFiles(files, store) ==
    LET dests == {RestoreDest(k) : k \in DOMAIN store}
    IN  [l \in DOMAIN files \cup dests |->
            IF l \in dests
            THEN store[CHOOSE k \in DOMAIN store : RestoreDest(k) = l]
            ELSE files[l]]

\* an exit that restores and leaves the working area where it is
FailKeepingWork(err, files, dirs, store) ==
    /\ astate' = "RolledBack"
    /\ aerr' = err
    /\ restored' = store
    /\ game' = RestoreFiles(files, store)
    /\ gdirs' = dirs \cup UNION {Ancestors(RestoreDest(k)) : k \in DOMAIN store}
    /\ UNCHANGED <<work, rollback>>
    /\ todo' = {}

\* lines 241-255: the except clause replays rollback_dir over the files as
\* the failure left them, the exception goes on to the caller, and the
\* finally clause removes the working area
Fail(err, files, dirs, store) ==
    /\ astate' = "RolledBack"
    /\ aerr' = err
    /\ restored' = store
    /\ game' = RestoreFiles(files, store)
    /\ gdirs' = dirs \cup UNION {Ancestors(RestoreDest(k)) : k \in DOMAIN store}
    /\ work' = Empty
    /\ rollback' = Empty
    /\ todo' = {}

\* the files of the archive that tar.extractall puts below rollback_dir
PlantedStore(members) ==
    LET ks == {n \in DOMAIN members : StartsWith(n, ROLLBACK_PREFIX)}
    IN  [k \in {SubSeq(n, Len(ROLLBACK_PREFIX) + 1, Len(n)) : n \in ks} |->
            members[ROLLBACK_PREFIX \o k].bytes]

\* lines 168-188: decompress within the memory budget, extract, load the
\* manifest, list the patch files
Extract(budget_ok) ==
    /\ astate = "Extracting"
    /\ disturbed' = (disturbed \/ ~budget_ok)
    /\ IF input.state # "archive" \/ ~budget_ok
       THEN \* open() or the decompressor raises: nothing was extracted
            /\ Fail("extract", game, gdirs, rollback)
            /\ UNCHANGED <<amanifest, touched, atApplied>>
       ELSE IF input.mstate # "ok"
       THEN \* the archive was extracted, rollback_dir holds what it held
            /\ Fail("extract", game, gdirs, PlantedStore(input.members))
            /\ UNCHANGED <<amanifest, touched, atApplied>>
       ELSE /\ astate' = "Applying"
            /\ work' = input.members
            /\ rollback' = PlantedStore(input.members)
            /\ amanifest' = input.manifest
            /\ todo' = DOMAIN input.members
            /\ UNCHANGED <<aerr, game, gdirs, touched, atApplied, restored>>
    /\ UNCHANGED <<old, new, cancel, cvars, input, pvars, uvars>>

\* lines 193-195: the relative path the reader recovers from a member name
rel_path_of(name) == Replace(splitext(name)[1], MARK, SEP)

\* line 196: Path(game_dir) / rel_path
target_file(name) == Normalize(rel_path_of(name))

\* the bytes of a member as shutil.copy2 copies them
BlobBytes(b) == IF b.kind = "bytes" THEN b.bytes ELSE GARBAGE

\* lines 201-224 for one member, with no cancellation pending.  inj is what
\* the environment does to the member's file operation: "none", "fail" (the
\* operation raises: detools on a corrupt delta, copy2 or remove on an I/O
\* error), or, for a delta applied to bytes that are not its base, "garbage"
\* (detools writes wrong bytes) or "fail".  The result is the files, the
\* directories and rollback_dir afterwards, and whether the member raised.
ApplyMember(name, inj) ==
    LET p_name == Basename(name)
        ext == splitext(p_name)[2]
        tgt == target_file(p_name)
        mkdir_ok == \A a \in Ancestors(tgt) : a \notin DOMAIN game
        dirs1 == gdirs \cup {a \in Ancestors(tgt) : ~Escapes(a)}
        is_file == tgt \in DOMAIN game
        is_dir == tgt \in dirs1
        \* line 204: rollback_dir / rel_path; with a leading ".." the copy
        \* lands beside rollback_dir, where the except clause does not look
        store1 == IF is_file /\ ~Escapes(tgt)
                  THEN Put(rollback, tgt, game[tgt]) ELSE rollback
        blob == work[name]
        tmp_new == tgt \o EXT_TMP
        R(raised, files, dirs, store, hit) ==
            [raised |-> raised, files |-> files, dirs |-> dirs,
             store |-> store, hit |-> hit]
    IN  IF ~mkdir_ok THEN R(TRUE, game, gdirs, rollback, {})
        ELSE IF is_dir THEN R(TRUE, game, dirs1, rollback, {})
        ELSE IF ext = EXT_PATCH THEN
            IF ~is_file THEN R(TRUE, game, dirs1, store1, {})
            ELSE IF inj = "fail" \/ blob.kind # "delta"
            THEN R(TRUE, Put(game, tmp_new, TRUNCATED), dirs1, store1, {})
            ELSE R(FALSE,
                   Put(Drop(game, tmp_new), tgt,
                       IF inj = "garbage" THEN GARBAGE ELSE blob.to),
                   dirs1, store1, {tgt})
        ELSE IF ext = EXT_FULL THEN
            IF inj = "fail"
            THEN R(TRUE, Put(game, tgt, TRUNCATED), dirs1, store1, {tgt})
            ELSE R(FALSE, Put(game, tgt, BlobBytes(blob)), dirs1, store1, {tgt})
        ELSE IF ext = EXT_DELETE /\ is_file THEN
            IF inj = "fail"
            THEN R(TRUE, game, dirs1, store1, {})
            ELSE R(FALSE, Drop(game, tgt), dirs1, store1, {tgt})
        ELSE R(FALSE, game, dirs1, store1, {})

\* what the environment may do to a member's file operation: nothing or a
\* failure when the member gets as far as its operation, and a delta whose
\* base is not the target's bytes cannot be applied as meant
Injections(name) ==
    LET p_name == Basename(name)
        ext == splitext(p_name)[2]
        tgt == target_file(p_name)
        blob == work[name]
        is_file == tgt \in DOMAIN game
        reaches == /\ \A a \in Ancestors(tgt) : a \notin DOMAIN game
                   /\ tgt \notin gdirs
                   /\ \/ ext = EXT_FULL
                      \/ ext \in {EXT_PATCH, EXT_DELETE} /\ is_file
    IN  IF ~reaches THEN {"none"}
        ELSE IF ext = EXT_PATCH /\ blob.kind = "delta" /\ blob.base # game[tgt]
        THEN {"fail", "garbage"}
        ELSE {"none", "fail"}

\* line 188: total_files of apply_patch, the number of extracted patch files
total_files == Cardinality(DOMAIN work)

\* lines 190-224: one iteration of the loop over patch_files, which starts
\* with the cancellation checkpoint
ApplyEntry(name, inj) ==
    /\ astate = "Applying"
    /\ name \in todo
    /\ inj \in Injections(name)
    /\ IF cancel
       THEN /\ Fail("cancelled", game, gdirs, rollback)
            /\ UNCHANGED <<touched, atApplied, disturbed, progress>>
       ELSE LET r == ApplyMember(name, inj)
                hit == touched \cup r.hit
                i == total_files - Cardinality(todo)
            IN  /\ touched' = hit
                /\ progress' = Append(progress, <<i + 1, total_files>>)
                /\ disturbed' = (disturbed \/ inj = "fail")
                /\ IF r.raised
                   THEN /\ Fail("io", r.files, r.dirs, r.store)
                        /\ UNCHANGED atApplied
                   ELSE /\ game' = r.files
                        /\ gdirs' = r.dirs
                        /\ rollback' = r.store
                        /\ todo' = todo \ {name}
                        /\ UNCHANGED <<astate, aerr, work, atApplied, restored>>
    /\ UNCHANGED <<old, new, cancel, cvars, input, amanifest, processed_files,
                   uvars>>

\* line 226: the loop is over, validation begins
ApplyLoopEnd ==
    /\ astate = "Applying"
    /\ todo = {}
    /\ astate' = "Validating"
    /\ atApplied' = game
    /\ UNCHANGED <<old, new, cancel, cvars, aerr, input, work, amanifest, todo,
                   rollback, game, gdirs, touched, restored, disturbed, pvars,
                   uvars>>

\* a validation that looks at nothing
NoValidationErrors == {}

\* lines 228-233: the manifest paths that are missing or hash differently
ValidationErrors ==
    {p \in DOMAIN amanifest :
        LET abs_path == Normalize(p)
        IN  IF abs_path \in DOMAIN game
            THEN sha256sum(game[abs_path]) # amanifest[p].sha256
            ELSE abs_path \notin gdirs}

\* lines 226-239 and 254-255: validation has no cancellation checkpoint; a
\* manifest path that is a directory makes _sha256sum raise; any error found
\* raises ValueError inside the try block
Validate ==
    /\ astate = "Validating"
    /\ IF \E p \in DOMAIN amanifest : Normalize(p) \in gdirs
       THEN Fail("hash_io", game, gdirs, rollback)
       ELSE IF ValidationErrors # {}
       THEN Fail("validation", game, gdirs, rollback)
       ELSE /\ astate' = "Committed"
            /\ work' = Empty
            /\ rollback' = Empty
            /\ UNCHANGED <<aerr, todo, game, gdirs, restored>>
    /\ UNCHANGED <<old, new, cancel, cvars, input, amanifest, touched,
                   atApplied, disturbed, pvars, uvars>>

\* cancel_task, lines 574-578: the flag is set while a run is active
CancelTask ==
    /\ cstate = "Scanning" \/ astate \in {"Extracting", "Applying", "Validating"}
    /\ ~cancel
    /\ cancel' = TRUE
    /\ disturbed' = TRUE
    /\ UNCHANGED <<old, new, cvars, avars, pvars, uvars>>

Next ==
    \/ CreateStart
    \/ \E p \in Paths : CreateNewFile(p)
    \/ \E p \in Paths : CreateOldFile(p)
    \/ \E ok \in BOOLEAN : CreateWrite(ok)
    \/ \E file \in PackageInputs(pkg) : ApplyStart(file)
    \/ \E ok \in BOOLEAN : Extract(ok)
    \/ \E name \in todo : \E inj \in {"none", "fail", "garbage"} :
          ApplyEntry(name, inj)
    \/ ApplyLoopEnd
    \/ Validate
    \/ CancelTask

Spec == Init /\ [][Next]_vars

(***************************************************************************)
(* MainApplication: start_task and cancel_task on the UI thread, the       *)
(* worker thread of run_task_in_thread, and the polling of log_queue.      *)
(* target_func is a loop of wtotal iterations, each with the cancellation  *)
(* checkpoint of _check_cancel first and a status and a progress message   *)
(* after it, as both loops of PatchLogic are.  A message box is modal: no  *)
(* button of the main window is pressed while one is open, but the timer   *)
(* of process_log_queue goes on firing.                                    *)
(***************************************************************************)
MaxRuns == 2
MaxSteps == 2
MaxNotes == 1

\* lines 588-595: a queued message, with the run that put it (0: no run)
Msg(type, value, total, run) ==
    [type |-> type, value |-> value, total |-> total, run |-> run]

\* a start_task that goes on whatever is_running_task says
NeverBusy == FALSE

\* line 512: start_task returns at once while a task is running
Busy == is_running_task

\* a start_task that leaves the flag as it finds it
cancel_event_kept == cancel

\* line 516: cancel_event.clear()
cancel_event_clear == FALSE

\* a worker that ends without its finally clause
NoFinishedMessage(q, run) == q

\* line 566: the finally clause of run_task_in_thread
FinishedMessage(q, run) == Append(q, Msg("finished", 0, 0, run))

\* lines 568-572
task_finished ==
    /\ is_running_task' = FALSE
    /\ progress_value' = 0

\* lines 511-552: with all paths given a worker thread is started; without,
\* an error box is shown and task_finished is called on the spot
StartTask(valid, n) ==
    /\ ~asking
    /\ ~Busy
    /\ cancel' = cancel_event_clear
    /\ IF valid
       THEN /\ runs < MaxRuns
            /\ is_running_task' = TRUE
            /\ runs' = runs + 1
            /\ workers' = workers + 1
            /\ wpc' = "started"
            /\ wtotal' = n
            /\ wdone' = 0
            /\ UNCHANGED progress_value
       ELSE /\ task_finished
            /\ UNCHANGED <<runs, workers, wpc, wtotal, wdone>>
    /\ UNCHANGED <<lvars, log_queue, asking, asked_in, cancel_of, outcome>>

\* lines 574-576: cancel_task finds a task running and asks
CancelAsk ==
    /\ ~asking
    /\ is_running_task
    /\ asking' = TRUE
    /\ asked_in' = runs
    /\ UNCHANGED <<lvars, cancel, is_running_task, log_queue, progress_value,
                   cancel_of, runs, workers, wpc, outcome, wtotal, wdone>>

\* lines 576-578: the answer; yes sets the flag
CancelAnswer(yes) ==
    /\ asking
    /\ asking' = FALSE
    /\ IF yes
       THEN cancel' = TRUE /\ cancel_of' = asked_in
       ELSE UNCHANGED <<cancel, cancel_of>>
    /\ UNCHANGED <<lvars, is_running_task, log_queue, progress_value, asked_in,
                   runs, workers, wpc, outcome, wtotal, wdone>>

\* lines 555 and 81, 159: the thread runs target_func, which logs its start
WorkerBegin ==
    /\ wpc = "started"
    /\ wpc' = "running"
    /\ log_queue' = Append(log_queue, Msg("log", 0, 0, runs))
    /\ UNCHANGED <<lvars, cancel, is_running_task, progress_value, asking,
                   asked_in, cancel_of, runs, workers, outcome, wtotal, wdone>>

\* one iteration of target_func (lines 98-127, 129-139, 190-224): the
\* checkpoint, then the status and the progress message, then the work, which
\* may raise; after the last iteration the rest of target_func (lines 141-150,
\* 226-239), which has no checkpoint and may raise
WorkerStep(raises) ==
    /\ wpc = "running"
    /\ IF wdone < wtotal
       THEN IF cancel
            THEN /\ outcome' = "cancelled"
                 /\ wpc' = "returned"
                 /\ UNCHANGED <<log_queue, wdone>>
            ELSE /\ log_queue' = log_queue \o
                        <<Msg("status", 0, 0, runs),
                          Msg("progress", wdone + 1, wtotal, runs)>>
                 /\ IF raises
                    THEN outcome' = "error" /\ wpc' = "returned"
                                           /\ UNCHANGED wdone
                    ELSE wdone' = wdone + 1 /\ UNCHANGED <<outcome, wpc>>
       ELSE /\ outcome' = IF raises THEN "error" ELSE "success"
            /\ wpc' = "returned"
            /\ UNCHANGED <<log_queue, wdone>>
    /\ UNCHANGED <<lvars, cancel, is_running_task, progress_value, asking,
                   asked_in, cancel_of, runs, workers, wtotal>>

\* lines 557-564: the outcome is logged and shown in a message box, which
\* the user closes
WorkerReport ==
    /\ wpc = "returned"
    /\ wpc' = "finally"
    /\ log_queue' = Append(log_queue, Msg("log", 0, 0, runs))
    /\ UNCHANGED <<lvars, cancel, is_running_task, progress_value, asking,
                   asked_in, cancel_of, runs, workers, outcome, wtotal, wdone>>

\* lines 565-566: the finally clause, and the thread ends
WorkerFinally ==
    /\ wpc = "finally"
    /\ wpc' = "none"
    /\ workers' = workers - 1
    /\ log_queue' = FinishedMessage(log_queue, runs)
    /\ UNCHANGED <<lvars, cancel, is_running_task, progress_value, asking,
                   asked_in, cancel_of, runs, outcome, wtotal, wdone>>

\* lines 597-615: process_log_queue takes the next message off the queue
Poll ==
    /\ log_queue # <<>>
    /\ log_queue' = Tail(log_queue)
    /\ LET m == Head(log_queue)
       IN  CASE m.type = "progress" ->
                    /\ progress_value' = m.value
                    /\ UNCHANGED is_running_task
             [] m.type = "finished" -> task_finished
             [] OTHER -> UNCHANGED <<is_running_task, progress_value>>
    /\ UNCHANGED <<lvars, cancel, asking, asked_in, cancel_of, runs, workers,
                   wpc, outcome, wtotal, wdone>>

\* lines 632-656 and inspector_plugin.py line 69: the UI thread itself logs,
\* at startup and from the inspector, whether a task runs or not
PluginLog ==
    /\ Cardinality({k \in DOMAIN log_queue : log_queue[k].run = 0}) < MaxNotes
    /\ log_queue' = Append(log_queue, Msg("log", 0, 0, 0))
    /\ UNCHANGED <<lvars, cancel, is_running_task, progress_value, asking,
                   asked_in, cancel_of, runs, workers, wpc, outcome, wtotal,
                   wdone>>

\* the application before any task, on two empty trees
AppInit ==
    /\ LogicInit
    /\ old = Empty
    /\ new = Empty
    /\ UiInit

AppNext ==
    \/ \E valid \in BOOLEAN : \E n \in 0..MaxSteps : StartTask(valid, n)
    \/ CancelAsk
    \/ \E yes \in BOOLEAN : CancelAnswer(yes)
    \/ WorkerBegin
    \/ \E raises \in BOOLEAN : WorkerStep(raises)
    \/ WorkerReport
    \/ WorkerFinally
    \/ Poll
    \/ PluginLog

AppSpec == AppInit /\ [][AppNext]_vars

\* the worker thread is scheduled and the user closes its message box; the
\* timer of line 615 keeps process_log_queue running
AppFair ==
    /\ AppSpec
    /\ WF_vars(WorkerBegin)
    /\ WF_vars(\E raises \in BOOLEAN : WorkerStep(raises))
    /\ WF_vars(WorkerReport)
    /\ WF_vars(WorkerFinally)
    /\ WF_vars(Poll)

(***************************************************************************)
(* Properties.                                                             *)
(***************************************************************************)
Ended == astate \in {"Committed", "RolledBack"}

\* C1: round trip.  Creating a package from (old, new) and applying it to a
\* copy of old, with no fault injected, no tampering and no cancellation,
\* succeeds, and the target then holds exactly the files of new with new's
\* bytes.
C1_RoundTrip ==
    ~disturbed =>
        /\ cstate # "Failed"
        /\ Ended => (astate = "Committed" /\ game = new)

\* C2: rollback on partial failure.  When apply_patch ends on a failure or a
\* cancellation met in the apply loop, every location that existed before
\* the run and that an entry wrote or removed holds its pre-run bytes, and
\* every location an entry created is still there.
C2_RollbackRestores ==
    (astate = "RolledBack" /\ aerr \in {"io", "cancelled"}) =>
        \A l \in touched :
            /\ l \in DOMAIN game
            /\ l \in DOMAIN old => game[l] = old[l]

C4_ExtractFailureFrame ==
    aerr = "extract" => (game = old /\ gdirs = DirsOf(DOMAIN old))

\* C5: when create_patch fails or is cancelled, no file is at the
\* destination path (none was there before).
C5_AllOrNothing ==
    cstate \in {"Failed", "Cancelled"} => pkg.state = "absent"

HasEntry(p, ext) == (patch_name(p) \o ext) \in DOMAIN pkg.members

\* C6: after create_patch, a path has a delta entry iff it is a file of both
\* trees with different bytes, a full copy iff it is a file of the new tree
\* only, a deletion marker iff it is a file of the old tree only (and so no
\* entry iff its bytes are the same in both).
C6_Classification ==
    cstate = "Done" =>
        \A p \in DOMAIN old \cup DOMAIN new :
            /\ HasEntry(p, EXT_PATCH) <=>
                  (p \in DOMAIN old /\ p \in DOMAIN new /\ old[p] # new[p])
            /\ HasEntry(p, EXT_FULL) <=> (p \in DOMAIN new /\ p \notin DOMAIN old)
            /\ HasEntry(p, EXT_DELETE) <=> (p \in DOMAIN old /\ p \notin DOMAIN new)

\* C7: after a successful create_patch the manifest of the package has
\* exactly the paths of the files of the new tree as keys, each with the
\* digest and the size of the new tree's file.
C7_ManifestComplete ==
    cstate = "Done" =>
        /\ pkg.mstate = "ok"
        /\ pkg.manifest = [p \in DOMAIN new |->
                             [sha256 |-> sha256sum(new[p]), size |-> Len(new[p])]]

\* a package made from trees with an unchanged file, a file that got an
\* entry, and a removed file
C7_Witness ==
    /\ cstate = "Done"
    /\ \E p \in DOMAIN new : NewFileEntry(p) = "none"
    /\ \E p \in DOMAIN new : NewFileEntry(p) # "none"
    /\ \E p \in DOMAIN old : p \notin DOMAIN new

\* C8: the writer's names of two distinct paths differ, and the reader
\* recovers every path from the writer's name for it, whatever the kind.
C8_NamesReversible ==
    cstate = "Done" =>
        \A p \in DOMAIN old \cup DOMAIN new :
            /\ \A q \in DOMAIN old \cup DOMAIN new :
                  p # q => patch_name(p) # patch_name(q)
            /\ \A ext \in {EXT_PATCH, EXT_FULL, EXT_DELETE} :
                  rel_path_of(patch_name(p) \o ext) = p

\* C9: a cancellation requested while apply_patch runs (the flag was clear
\* when the run started) makes the run end cancelled, never committed.
C9_CancelObserved ==
    astate = "Committed" => ~cancel

\* C10: apply_patch writes, replaces, removes and restores only below the
\* target root: no file ever appears outside it.
C10_NoTraversal ==
    \A l \in DOMAIN game : ~Escapes(l)

\* C11: a package in which two entries decode to the same relative path is
\* rejected as corrupt: the run does not commit and no entry of it writes or
\* removes a target file.
DuplicateTargets ==
    \E m, n \in DOMAIN input.members :
        m # n /\ rel_path_of(Basename(m)) = rel_path_of(Basename(n))

C11_DuplicatesRejected ==
    (astate # "Idle" /\ input.state = "archive" /\ input.mstate = "ok"
        /\ DuplicateTargets)
    => (touched = {} /\ astate # "Committed")

\* C12: an apply run goes Idle, Extracting, Applying, Validating and ends
\* Committed or RolledBack.  Validation starts only from the loop with no
\* entry left, the run commits only from validation with every manifest path
\* present and hashing as recorded, no step after validation began or after
\* the run ended changes a target file, and an ended run stays as it ended.
ApplyOrder ==
    {<<"Idle", "Extracting">>, <<"Extracting", "Applying">>,
     <<"Extracting", "RolledBack">>, <<"Applying", "RolledBack">>,
     <<"Applying", "Validating">>, <<"Validating", "Committed">>,
     <<"Validating", "RolledBack">>}

ZeroViolations ==
    \A p \in DOMAIN amanifest :
        /\ Normalize(p) \in DOMAIN game
        /\ sha256sum(game[Normalize(p)]) = amanifest[p].sha256

C12_ApplyOrder ==
    [][/\ astate' # astate => <<astate, astate'>> \in ApplyOrder
       /\ (astate' = "Validating" /\ astate # "Validating") => todo = {}
       /\ (astate' = "Committed" /\ astate # "Committed")
             => (ZeroViolations /\ game' = game)
       /\ (astate = "Validating" /\ astate' # "RolledBack") => game' = game
       /\ Ended => (astate' = astate /\ game' = game /\ aerr' = aerr)
       /\ (astate' = "RolledBack") = (aerr' # "none")]_vars

C12_Witness ==
    astate = "Committed" /\ touched # {} /\ amanifest # Empty

\* C13: while an apply run is under way, every path of the rollback snapshot
\* was a file before the run and the snapshot holds the bytes it had then.
C13_SnapshotFidelity ==
    \A k \in DOMAIN rollback :
        k \in DOMAIN old /\ rollback[k] = old[k]

C15_ProgressMonotone ==
    \A k \in DOMAIN progress :
        /\ 0 <= progress[k][1]
        /\ progress[k][1] <= progress[k][2]
        /\ \A j \in DOMAIN progress :
              /\ progress[j][2] = progress[k][2]
              /\ j <= k => progress[j][1] <= progress[k][1]

C15_Witness ==
    /\ astate = "Applying"
    /\ cstate = "Done"
    /\ Len(progress) >= 2
    /\ Cardinality(DOMAIN old \cup DOMAIN new) >= 2

\* C16: at most one worker is alive at any time, and while a worker is alive
\* or its finished message is still in the queue is_running_task is true, so
\* that start_task starts nothing.
FinishedPending ==
    \E k \in DOMAIN log_queue : log_queue[k].type = "finished"

C16_OneWorker ==
    /\ workers <= 1
    /\ (workers > 0 \/ wpc # "none" \/ FinishedPending) => is_running_task

C16_Witness ==
    /\ runs = 2
    /\ wpc = "running"
    /\ workers = 1

\* C17: a worker puts exactly one finished message, after every other
\* message of its run; once is_running_task is false the progress bar is at
\* 0 and no message of a run is left to change it; and whenever a task is
\* running, is_running_task eventually becomes false with the bar at 0.
RunMessages == {k \in DOMAIN log_queue : log_queue[k].run # 0}

C17_QueueOrder ==
    /\ \A k \in RunMessages : log_queue[k].run = runs
    /\ \A j, k \in RunMessages :
          (log_queue[j].type = "finished" /\ j # k)
              => (k < j /\ log_queue[k].type # "finished")
    /\ is_running_task =>
          (FinishedPending = (wpc = "none"))
    /\ ~is_running_task =>
          (progress_value = 0 /\ RunMessages = {} /\ wpc = "none")

C18_NoCancelLeak ==
    /\ wpc # "none" /\ cancel => cancel_of = runs
    /\ wpc = "started" /\ cancel => asked_in = runs

C18_Witness ==
    /\ runs = 2
    /\ wpc = "started"
    /\ outcome = "success"
    /\ cancel_of = 1
    /\ ~cancel

====
